---------------------------- MODULE Spec2Model ----------------------------
(***************************************************************************)
(* A model of the retail analysis tools: the keyword extractors of         *)
(* tools.py, the two synthetic data generators, the filter/aggregate steps *)
(* of the tools and the comparison and forecasting analytics.              *)
(*                                                                         *)
(* Text is modelled as a sequence of one-character strings, so that the    *)
(* Python operators `in` (substring), lower() and capitalize() are         *)
(* computed, not assumed.  Decimal data values are fixed-point integers;   *)
(* the unit is stated at each definition.                                  *)
(*                                                                         *)
(* tools.py lines 100 and 197 end the age-group list with a stray quote    *)
(* ("55+""]); the model reads the list as the five labels of               *)
(* data_panel_penetration.py line 27.                                      *)
(***************************************************************************)
EXTENDS Integers, Sequences, FiniteSets, TLC

VARIABLES
    query,      \* the free-text query handed to a tool
    tool,       \* the tool (or method) that ran last
    params,     \* the parameters the tool's extractors returned
    rng,        \* numpy's global random generator
    call,       \* the arguments of the last generator call
    df,         \* the rows the last generator call returned
    ref,        \* the first generator call: its arguments and its rows
    cfg,        \* the generator parameters in effect for the tools
    input,      \* the arguments of a directly called analytics method
    result,     \* what the tool or method returned (or raised)
    pc,         \* where a call of _generate_forecast stands
    log         \* what that call did so far

vars == <<query, tool, params, rng, call, df, ref, cfg, input, result, pc, log>>

(***************************************************************************)
(* Python values                                                           *)
(***************************************************************************)

\* Python's None.  Every other text of the model is a sequence of
\* one-character strings, so this value is none of them.
None == <<"None">>

\* The elements of a sequence.
Range(s) == { s[i] : i \in 1..Len(s) }

\* The concatenation of a sequence of texts.
RECURSIVE Flatten(_)
Flatten(fs) == IF fs = <<>> THEN <<>> ELSE Head(fs) \o Flatten(Tail(fs))

\* Python truthiness of an optional string: None and "" are false.
Truthy(x) == x # None /\ x # <<>>

\* str.lower() on one character (the upper-case letters the model uses).
LowerChar(c) ==
    CASE c = "A" -> "a" [] c = "B" -> "b" [] c = "C" -> "c" [] c = "M" -> "m"
      [] c = "N" -> "n" [] c = "O" -> "o" [] c = "R" -> "r" [] c = "S" -> "s"
      [] c = "V" -> "v" [] c = "W" -> "w" [] OTHER -> c

\* str.upper() on one character.
UpperChar(c) ==
    CASE c = "a" -> "A" [] c = "b" -> "B" [] c = "c" -> "C" [] c = "m" -> "M"
      [] c = "n" -> "N" [] c = "o" -> "O" [] c = "r" -> "R" [] c = "s" -> "S"
      [] c = "v" -> "V" [] c = "w" -> "W" [] OTHER -> c

\* str.lower()
Lower(s) == [i \in 1..Len(s) |-> LowerChar(s[i])]

\* str.capitalize(): first character upper-cased, the rest lower-cased.
\* A region returned as the vocabulary spells it, in lower case.
AsSpelled(s) == s

Capitalize(s) ==
    IF Len(s) = 0 THEN s ELSE <<UpperChar(s[1])>> \o Lower(Tail(s))

\* Python's `p in s` for strings: p occurs in s as a contiguous substring.
In(p, s) ==
    \E i \in 0..(Len(s) - Len(p)) : SubSeq(s, i + 1, i + Len(p)) = p

\* One decimal digit as a character.
DigitChar(d) ==
    CASE d = 0 -> "0" [] d = 1 -> "1" [] d = 2 -> "2" [] d = 3 -> "3"
      [] d = 4 -> "4" [] d = 5 -> "5" [] d = 6 -> "6" [] d = 7 -> "7"
      [] d = 8 -> "8" [] OTHER -> "9"

\* str(i) for a natural number: its decimal numeral.
RECURSIVE Str(_)
Str(n) == IF n < 10 THEN <<DigitChar(n)>> ELSE Str(n \div 10) \o <<DigitChar(n % 10)>>

(***************************************************************************)
(* The vocabularies of the extractors (tools.py)                           *)
(***************************************************************************)

oreo         == <<"o","r","e","o">>
chipsahoy    == <<"c","h","i","p","s","a","h","o","y">>
ritz         == <<"r","i","t","z">>
belvita      == <<"b","e","l","v","i","t","a">>
nutterbutter == <<"n","u","t","t","e","r","b","u","t","t","e","r">>

northeast == <<"n","o","r","t","h","e","a","s","t">>
southeast == <<"s","o","u","t","h","e","a","s","t">>
midwest   == <<"m","i","d","w","e","s","t">>
west      == <<"w","e","s","t">>
southwest == <<"s","o","u","t","h","w","e","s","t">>

age18 == <<"1","8","-","2","4">>
age25 == <<"2","5","-","3","4">>
age35 == <<"3","5","-","4","4">>
age45 == <<"4","5","-","5","4">>
age55 == <<"5","5","+">>

\* brands = ["oreo", "chipsahoy", "ritz", "belvita", "nutterbutter"]
brands == <<oreo, chipsahoy, ritz, belvita, nutterbutter>>

\* regions = ["northeast", "southeast", "midwest", "west", "southwest"]
regions == <<northeast, southeast, midwest, west, southwest>>

\* age_groups = ["18-24", "25-34", "35-44", "45-54", "55+"]
age_groups == <<age18, age25, age35, age45, age55>>

market_share_kw == <<"m","a","r","k","e","t"," ","s","h","a","r","e">>
marketshare_kw  == <<"m","a","r","k","e","t","s","h","a","r","e">>
month_kw        == <<"m","o","n","t","h">>

\* The two metric names _extract_metric returns.
MetricMarketShare == <<"m","a","r","k","e","t","_","s","h","a","r","e">>
MetricPenetration == <<"p","e","n","e","t","r","a","t","i","o","n">>

(***************************************************************************)
(* The extractors                                                          *)
(***************************************************************************)

\* `for w in vocab: if w in query: return w`, from entry i on; None when the
\* loop ends without a return.
RECURSIVE FirstIn(_, _, _)
FirstIn(vocab, i, q) ==
    IF i > Len(vocab) THEN None
    ELSE IF In(vocab[i], q) THEN vocab[i]
    ELSE FirstIn(vocab, i + 1, q)

\* A plausible slip: the loop keeps the last match instead of returning the
\* first one.
RECURSIVE LastIn(_, _, _)
LastIn(vocab, i, q) ==
    IF i < 1 THEN None
    ELSE IF In(vocab[i], q) THEN vocab[i]
    ELSE LastIn(vocab, i - 1, q)

\* A plausible slip: no default brand.
ExtractBrandNoDefault(q) == FirstIn(brands, 1, q)

\* _extract_brand of MarketShareTool, PenetrationTool and ForecastingTool:
\* the query was lower-cased by _run.
ExtractBrand(q) ==
    LET b == FirstIn(brands, 1, q) IN IF b = None THEN oreo ELSE b

ExtractRegionLastWins(q) ==
    LET r == LastIn(regions, Len(regions), q) IN
    IF r = None THEN None ELSE Capitalize(r)

\* _extract_region of MarketShareTool and PenetrationTool.
ExtractRegion(q) ==
    LET r == FirstIn(regions, 1, q) IN
    IF r = None THEN None ELSE Capitalize(r)

\* _extract_age_group (PenetrationTool, ComparisonTool).
ExtractAgeGroup(q) == FirstIn(age_groups, 1, q)

\* _extract_brand of ComparisonTool: lower-cases the query itself.
ComparisonExtractBrand(q) == ExtractBrand(Lower(q))

\* _extract_region of ComparisonTool and CompetitorAnalysisTool.
ComparisonExtractRegion(q) == ExtractRegion(Lower(q))

\* CompetitorAnalysisTool._extract_brands: every vocabulary brand that
\* occurs, in vocabulary order; all five when none occurs.
ExtractBrands(q) ==
    LET found == SelectSeq(brands, LAMBDA b : In(b, Lower(q))) IN
    IF found = <<>> THEN brands ELSE found

\* ForecastingTool._extract_metric
ExtractMetric(q) ==
    IF In(market_share_kw, q) \/ In(marketshare_kw, q)
    THEN MetricMarketShare ELSE MetricPenetration

\* The scan `for i in range(1, last + 1): if str(i) in query: ...; break`,
\* from i on; 0 when no numeral occurs.
RECURSIVE FirstNumeral(_, _, _)
FirstNumeral(i, last, q) ==
    IF i > last THEN 0
    ELSE IF In(Str(i), q) THEN i
    ELSE FirstNumeral(i + 1, last, q)

\* ForecastingTool._extract_forecast_horizon
ExtractForecastHorizon(q) ==
    LET n == IF In(month_kw, q) THEN FirstNumeral(1, 12, q) ELSE 0 IN
    IF n = 0 THEN 3 ELSE n

(***************************************************************************)
(* numpy's global random generator, abstracted                             *)
(*                                                                         *)
(* The generator is a state that np.random.seed sets from the seed alone   *)
(* and that every draw advances.  The model keeps exactly that: a counter  *)
(* of period 16 whose draws are read off a table.  The table holds         *)
(* ordinary draws and two far-out ones, because a normal draw has no       *)
(* lower bound.                                                            *)
(***************************************************************************)

RngStates == 0..15

\* np.random.seed(seed)
Seed(seed) == seed % 16

\* The state after one draw.
Advance(s) == (s + 1) % 16

\* The state after n draws.
AdvanceBy(s, n) == (s + n) % 16

\* A standard normal draw in state s, in tenths of a standard deviation.
StdNormal(s) ==
    <<0, 3, -7, 12, -2, 25, -15, 1, -400, 8, -4, 0, 17, -11, 5, -1000>>[s + 1]

\* np.random.rand() in state s, in tenths.
Rand(s) == (7 * s + 1) % 10

(***************************************************************************)
(* Fixed-point arithmetic                                                  *)
(***************************************************************************)

Max(a, b) == IF a >= b THEN a ELSE b

\* round(x, n): x in units of which `unit` make one step of the n-th
\* decimal; the result counts those steps.  Ties go to the even neighbour.
Round(x, unit) ==
    LET q == x \div unit
        r == x % unit
    IN  IF 2 * r > unit THEN q + 1
        ELSE IF 2 * r < unit THEN q
        ELSE IF q % 2 = 0 THEN q ELSE q + 1

(***************************************************************************)
(* The names of the datasets                                               *)
(***************************************************************************)

Oreo         == <<"O","r","e","o">>
ChipsAhoy    == <<"C","h","i","p","s","A","h","o","y">>
Ritz         == <<"R","i","t","z">>
belVita      == <<"b","e","l","V","i","t","a">>
NutterButter == <<"N","u","t","t","e","r","B","u","t","t","e","r">>
\* The key of the 45-54 row of age_multipliers (data_panel_penetration.py
\* line 52).
ChipsAhay    == <<"C","h","i","p","s","A","h","a","y">>
\* A brand and an age group outside the default lists.
Zesta        == <<"Z","e","s","t","a">>
Teens        == <<"1","3","-","1","7">>

Northeast == <<"N","o","r","t","h","e","a","s","t">>
Southeast == <<"S","o","u","t","h","e","a","s","t">>
Midwest   == <<"M","i","d","w","e","s","t">>
West      == <<"W","e","s","t">>
Southwest == <<"S","o","u","t","h","w","e","s","t">>

DefaultBrands    == <<Oreo, ChipsAhoy, Ritz, belVita, NutterButter>>
DefaultRegions   == <<Northeast, Southeast, Midwest, West, Southwest>>
DefaultAgeGroups == <<age18, age25, age35, age45, age55>>
DefaultStartDate == <<2025, 1, 1>>
DefaultPeriods   == 7
MarketShareSeed  == 42
PenetrationSeed  == 43

\* dict.get(key, default) on a dict written as a sequence of <<key, value>>.
Get(dict, key, default) ==
    IF \E i \in 1..Len(dict) : dict[i][1] = key
    THEN dict[CHOOSE i \in 1..Len(dict) : dict[i][1] = key][2]
    ELSE default

\* `x if x is not None else d`
OrDefault(x, d) == IF x = None THEN d ELSE x

\* month.strftime('%Y-%m') of the idx-th month of
\* pd.date_range(start=start_date, periods=periods, freq='M'): the month
\* ends from the start date on, so month idx is the start month plus idx.
\* The text YYYY-MM is kept as the number YYYYMM, which orders the same way.
MonthStr(start_date, idx) ==
    LET t == start_date[1] * 12 + (start_date[2] - 1) + idx
    IN  (t \div 12) * 100 + ((t % 12) + 1)

\* region_multipliers[region], in thousandths:
\* {region: 1.0 + (i - len(regions)/2) * 0.05 for i, region in enumerate(regions)};
\* a region listed twice keeps its last index.
RegionMultiplier(rs, region) ==
    LET i == CHOOSE j \in 1..Len(rs) :
                 rs[j] = region /\ \A k \in (j + 1)..Len(rs) : rs[k] # region
    IN  1000 + (2 * (i - 1) - Len(rs)) * 25

(***************************************************************************)
(* generate_market_share_data                                              *)
(***************************************************************************)

\* base_values and trends, in hundredths of a point.
MarketShareBaseValues ==
    << <<Oreo, 2400>>, <<ChipsAhoy, 1850>>, <<Ritz, 1600>>,
       <<belVita, 1250>>, <<NutterButter, 1000>> >>

MarketShareTrends ==
    << <<Oreo, 40>>, <<ChipsAhoy, 20>>, <<Ritz, 25>>,
       <<belVita, 45>>, <<NutterButter, 10>> >>

\* A plausible slip: the value is rounded without the floor.
Unfloored(value, unit) == Round(value, unit)

\* round(max(value, 0.1), 1), in tenths; `unit` is one tenth in the units of
\* value.
Floored(value, unit) == Round(Max(value, unit), unit)

\* The row appended by the k-th pass of the innermost loop (k from 1), the
\* generator being in state s0 before the first pass.  Every pass draws
\* three numbers: the share noise, the price noise, the promotion draw.
\* Shares are computed in units of 0.00001 and prices likewise.
MarketShareRow(a, bs, rs, s0, k) ==
    LET month_idx == (k - 1) \div (Len(bs) * Len(rs))
        brand     == bs[(((k - 1) \div Len(rs)) % Len(bs)) + 1]
        region    == rs[((k - 1) % Len(rs)) + 1]
        s1        == AdvanceBy(s0, 3 * (k - 1))
        s2        == Advance(s1)
        s3        == Advance(s2)
        base_share == Get(MarketShareBaseValues, brand, 1000)
        trend      == Get(MarketShareTrends, brand, 10)
        multiplier == RegionMultiplier(rs, region)
        share      == (base_share + month_idx * trend) * multiplier
                        + StdNormal(s1) * 3000
        premium    == IF \E i \in 1..Len(bs) : i <= 2 /\ bs[i] = brand
                      THEN 50000 ELSE 0
        price      == 399000 + premium + StdNormal(s2) * 1000
        promo      == IF Rand(s3) < 3 THEN 1 ELSE 0
    IN  [ Month       |-> MonthStr(a.start_date, month_idx),
          Brand       |-> brand,
          Region      |-> region,
          MarketShare |-> Floored(share, 10000),
          Price       |-> Round(price, 1000),
          OnPromotion |-> promo ]

\* The rows generate_market_share_data(**a) returns when the global
\* generator is in state s0 after line 20.
MarketShareRows(a, s0) ==
    LET bs == OrDefault(a.brands, DefaultBrands)
        rs == OrDefault(a.regions, DefaultRegions)
    IN  [k \in 1..(a.periods * Len(bs) * Len(rs)) |-> MarketShareRow(a, bs, rs, s0, k)]

\* A plausible slip: line 20 (np.random.seed) is missing, so the draws
\* continue from wherever the global generator stands.
SeededStateUnseeded(seed, s) == s

\* The state of the global generator after np.random.seed(seed), s being
\* its state before.
SeededState(seed, s) == Seed(seed)

(***************************************************************************)
(* generate_penetration_data                                               *)
(***************************************************************************)

\* base_values, in hundredths of a point.
PenetrationBaseValues ==
    << <<Oreo, 1200>>, <<ChipsAhoy, 950>>, <<Ritz, 1000>>,
       <<belVita, 700>>, <<NutterButter, 600>> >>

\* age_multipliers, in tenths.
AgeMultipliers ==
    << <<age18, << <<Oreo, 13>>, <<ChipsAhoy, 12>>, <<Ritz, 9>>,
                   <<belVita, 8>>, <<NutterButter, 9>> >> >>,
       <<age25, << <<Oreo, 12>>, <<ChipsAhoy, 11>>, <<Ritz, 10>>,
                   <<belVita, 12>>, <<NutterButter, 9>> >> >>,
       <<age35, << <<Oreo, 11>>, <<ChipsAhoy, 10>>, <<Ritz, 11>>,
                   <<belVita, 13>>, <<NutterButter, 10>> >> >>,
       <<age45, << <<Oreo, 9>>, <<ChipsAhay, 9>>, <<Ritz, 12>>,
                   <<belVita, 11>>, <<NutterButter, 11>> >> >>,
       <<age55, << <<Oreo, 8>>, <<ChipsAhoy, 8>>, <<Ritz, 11>>,
                   <<belVita, 9>>, <<NutterButter, 12>> >> >> >>

\* age_multipliers.get(age_group, {}).get(brand, 1.0)
AgeMultiplier(age_group, brand) ==
    Get(Get(AgeMultipliers, age_group, <<>>), brand, 10)

\* The regions generate_penetration_data iterates over: line 29 assigns the
\* five default regions whatever the caller passed.
PenetrationRegions(a) == DefaultRegions

\* The row appended by the k-th pass of the innermost loop.  Every pass
\* draws three numbers: the penetration, frequency and loyalty noise.
\* Penetration is computed in units of 0.000001, the other two in 0.00001.
PenetrationRow(a, bs, ags, rs, s0, k) ==
    LET month_idx == (k - 1) \div (Len(bs) * Len(ags) * Len(rs))
        brand     == bs[(((k - 1) \div (Len(ags) * Len(rs))) % Len(bs)) + 1]
        age_group == ags[(((k - 1) \div Len(rs)) % Len(ags)) + 1]
        region    == rs[((k - 1) % Len(rs)) + 1]
        s1        == AdvanceBy(s0, 3 * (k - 1))
        s2        == Advance(s1)
        s3        == Advance(s2)
        first     == brand = bs[1]
        base_pen    == Get(PenetrationBaseValues, brand, 500)
        brand_trend == IF first THEN 30 ELSE 10
        age_mult    == AgeMultiplier(age_group, brand)
        region_mult == RegionMultiplier(rs, region)
        penetration == (base_pen + month_idx * brand_trend) * age_mult * region_mult
                         + StdNormal(s1) * 20000
        purch_freq  == 200000 + (IF first THEN 50000 ELSE 0) + StdNormal(s2) * 2000
        loyalty     == 6500000 + (IF first THEN 1000000 ELSE 0) + StdNormal(s3) * 30000
    IN  [ Month             |-> MonthStr(a.start_date, month_idx),
          Brand             |-> brand,
          AgeGroup          |-> age_group,
          Region            |-> region,
          Penetration       |-> Floored(penetration, 100000),
          PurchaseFrequency |-> Round(purch_freq, 10000),
          LoyaltyScore      |-> Round(loyalty, 10000) ]

\* The rows generate_penetration_data(**a) returns when the global
\* generator is in state s0 after line 21.
PenetrationRows(a, s0) ==
    LET bs  == OrDefault(a.brands, DefaultBrands)
        ags == OrDefault(a.age_groups, DefaultAgeGroups)
        rs  == PenetrationRegions(a)
    IN  [k \in 1..(a.periods * Len(bs) * Len(ags) * Len(rs)) |->
            PenetrationRow(a, bs, ags, rs, s0, k)]

(***************************************************************************)
(* Floating-point values                                                   *)
(*                                                                         *)
(* A float is kept as an exact fraction [n, d] in lowest terms with d > 0. *)
(* The three values a numpy division by zero produces are the fractions    *)
(* with d = 0: nan is 0/0, inf is 1/0 and -inf is -1/0.                    *)
(***************************************************************************)

Abs(x) == IF x < 0 THEN -x ELSE x

RECURSIVE Gcd(_, _)
Gcd(a, b) == IF b = 0 THEN a ELSE Gcd(b, a % b)

\* The fraction n/d for d # 0, in lowest terms.
Frac(n, d) ==
    LET g == Gcd(Abs(n), Abs(d))
        sg == IF d < 0 THEN -1 ELSE 1
    IN  [n |-> sg * (n \div g), d |-> sg * (d \div g)]

NaN    == [n |-> 0, d |-> 0]
PosInf == [n |-> 1, d |-> 0]
NegInf == [n |-> -1, d |-> 0]

IsNaN(x)    == x.d = 0 /\ x.n = 0
IsFinite(x) == x.d # 0

\* float(k) for an integer k.
Num(k) == [n |-> k, d |-> 1]

\* x + y, x - y and x * y for finite x and y.
FAdd(x, y) == Frac(x.n * y.d + y.n * x.d, x.d * y.d)
FSub(x, y) == Frac(x.n * y.d - y.n * x.d, x.d * y.d)
FMul(x, y) == Frac(x.n * y.n, x.d * y.d)

\* numpy's x / y for finite x and y: a zero divisor gives inf, -inf or nan
\* (with a RuntimeWarning), never an exception.
FDiv(x, y) ==
    IF y.n # 0 THEN Frac(x.n * y.d, x.d * y.n)
    ELSE IF x.n > 0 THEN PosInf
    ELSE IF x.n < 0 THEN NegInf
    ELSE NaN

\* x * k for a positive integer k; inf and nan stay what they are.
FScale(x, k) == IF IsFinite(x) THEN Frac(x.n * k, x.d) ELSE x

\* x > y; every comparison with nan is false.
FGt(x, y) ==
    IF IsNaN(x) \/ IsNaN(y) THEN FALSE
    ELSE IF IsFinite(x) /\ IsFinite(y) THEN x.n * y.d > y.n * x.d
    ELSE IF ~IsFinite(x) /\ ~IsFinite(y) THEN x.n > y.n
    ELSE IF ~IsFinite(x) THEN x.n > 0
    ELSE y.n < 0

FLt(x, y) == FGt(y, x)

\* x <= y
FLe(x, y) == IF IsNaN(x) \/ IsNaN(y) THEN FALSE ELSE ~FGt(x, y)

\* The sum of a sequence of finite floats.
RECURSIVE FSum(_)
FSum(xs) == IF xs = <<>> THEN Num(0) ELSE FAdd(Head(xs), FSum(Tail(xs)))

\* The sum of a sequence of integers.
RECURSIVE Sum(_)
Sum(xs) == IF xs = <<>> THEN 0 ELSE Head(xs) + Sum(Tail(xs))

\* np.mean of a non-empty sequence of finite floats.
FMean(xs) == FDiv(FSum(xs), Num(Len(xs)))

(***************************************************************************)
(* Data frames                                                             *)
(*                                                                         *)
(* A frame is the sequence of its rows.  pd.DataFrame(data) of an empty    *)
(* list has no columns, so selecting a column of it raises KeyError.       *)
(***************************************************************************)

\* The values of a set of numbers in ascending order.
RECURSIVE Sorted(_)
Sorted(S) ==
    IF S = {} THEN <<>>
    ELSE LET m == CHOOSE x \in S : \A y \in S : x <= y
         IN  <<m>> \o Sorted(S \ {m})

\* The column `col` of a frame, as integers.
Column(rows, col) == [i \in 1..Len(rows) |-> rows[i][col]]

\* The 'Month' keys of a frame in the order groupby returns the groups.
GroupKeys(rows) == Sorted({ rows[i].Month : i \in 1..Len(rows) })

\* The rows of one group.
Group(rows, month) == SelectSeq(rows, LAMBDA r : r.Month = month)

\* groupby(...)[col].mean() of one group: the mean of an integer column.
MeanOf(rows, col) == Frac(Sum(Column(rows, col)), Len(rows))

\* df[df['Brand'].str.lower() == brand]
FilterBrand(rows, brand) == SelectSeq(rows, LAMBDA r : Lower(r.Brand) = brand)

\* df[df['Region'] == region]
FilterRegion(rows, region) == SelectSeq(rows, LAMBDA r : r.Region = region)

\* df[df['AgeGroup'] == age_group]
FilterAgeGroup(rows, age_group) == SelectSeq(rows, LAMBDA r : r.AgeGroup = age_group)

\* groupby('Month', as_index=False)[col].mean(): one row per month, months
\* ascending.
GroupByMonthMean(rows, col) ==
    LET keys == GroupKeys(rows)
    IN  [i \in 1..Len(keys) |->
            [Month |-> keys[i], Value |-> MeanOf(Group(rows, keys[i]), col)]]

\* An uncaught exception leaves the tool.
Raise(exc, line) == [kind |-> "raise", exc |-> exc, line |-> line]

(***************************************************************************)
(* The generator parameters in effect for the tools                        *)
(*                                                                         *)
(* The tools call generate_market_share_data() and                         *)
(* generate_penetration_data() without arguments, so the datasets they     *)
(* work on are fixed by the default values in the two def lines.  cfg      *)
(* holds those values; DefaultConfig is what the repository ships.         *)
(***************************************************************************)

DefaultConfig ==
    [start_date |-> DefaultStartDate, periods |-> DefaultPeriods,
     brands |-> None, regions |-> None, age_groups |-> None]

MarketShareFrame(c, s) ==
    MarketShareRows([start_date |-> c.start_date, periods |-> c.periods,
                     brands |-> c.brands, regions |-> c.regions,
                     seed |-> MarketShareSeed],
                    SeededState(MarketShareSeed, s))

PenetrationFrame(c, s) ==
    PenetrationRows([start_date |-> c.start_date, periods |-> c.periods,
                     brands |-> c.brands, age_groups |-> c.age_groups,
                     regions |-> c.regions, seed |-> PenetrationSeed],
                    SeededState(PenetrationSeed, s))

(***************************************************************************)
(* MarketShareTool and PenetrationTool                                     *)
(***************************************************************************)

\* The groupby(['Month', 'Brand']).agg(...) of MarketShareTool._run on rows
\* of one brand: mean share, mean price, promotions counted.
MarketShareAggregate(rows) ==
    LET keys == GroupKeys(rows)
    IN  [i \in 1..Len(keys) |->
            LET g == Group(rows, keys[i])
            IN  [Month       |-> keys[i],
                 Brand       |-> g[1].Brand,
                 MarketShare |-> MeanOf(g, "MarketShare"),
                 Price       |-> MeanOf(g, "Price"),
                 OnPromotion |-> Sum(Column(g, "OnPromotion"))]]

\* A frame of the generator as it is returned unaggregated: the same rows,
\* the numbers as floats.
MarketShareAsIs(rows) ==
    [i \in 1..Len(rows) |->
        [Month       |-> rows[i].Month,
         Brand       |-> rows[i].Brand,
         Region      |-> rows[i].Region,
         MarketShare |-> Num(rows[i].MarketShare),
         Price       |-> Num(rows[i].Price),
         OnPromotion |-> rows[i].OnPromotion]]

\* MarketShareTool._run
MarketShareToolResult(q0, frame) ==
    LET q             == Lower(q0)
        brand_filter  == ExtractBrand(q)
        region_filter == ExtractRegion(q)
        by_brand      == FilterBrand(frame, brand_filter)
        filtered      == IF Truthy(region_filter)
                         THEN FilterRegion(by_brand, region_filter)
                         ELSE by_brand
    IN  IF Len(frame) = 0 THEN Raise("KeyError", 27)
        ELSE [kind |-> "frame",
              rows |-> IF region_filter = None
                       THEN MarketShareAggregate(filtered)
                       ELSE MarketShareAsIs(filtered)]

\* The groupby(['Month', 'Brand']).agg(...) of PenetrationTool._run.
PenetrationAggregate(rows) ==
    LET keys == GroupKeys(rows)
    IN  [i \in 1..Len(keys) |->
            LET g == Group(rows, keys[i])
            IN  [Month             |-> keys[i],
                 Brand             |-> g[1].Brand,
                 Penetration       |-> MeanOf(g, "Penetration"),
                 PurchaseFrequency |-> MeanOf(g, "PurchaseFrequency"),
                 LoyaltyScore      |-> MeanOf(g, "LoyaltyScore")]]

PenetrationAsIs(rows) ==
    [i \in 1..Len(rows) |->
        [Month             |-> rows[i].Month,
         Brand             |-> rows[i].Brand,
         AgeGroup          |-> rows[i].AgeGroup,
         Region            |-> rows[i].Region,
         Penetration       |-> Num(rows[i].Penetration),
         PurchaseFrequency |-> Num(rows[i].PurchaseFrequency),
         LoyaltyScore      |-> Num(rows[i].LoyaltyScore)]]

\* `if region_filter is None and age_filter is None:` (line 76)
PenetrationShouldAggregate(region_filter, age_filter) ==
    region_filter = None /\ age_filter = None

\* PenetrationTool._run
PenetrationToolResult(q0, frame) ==
    LET q             == Lower(q0)
        brand_filter  == ExtractBrand(q)
        region_filter == ExtractRegion(q)
        age_filter    == ExtractAgeGroup(q)
        by_brand      == FilterBrand(frame, brand_filter)
        by_region     == IF Truthy(region_filter)
                         THEN FilterRegion(by_brand, region_filter)
                         ELSE by_brand
        filtered      == IF Truthy(age_filter)
                         THEN FilterAgeGroup(by_region, age_filter)
                         ELSE by_region
    IN  IF Len(frame) = 0 THEN Raise("KeyError", 69)
        ELSE [kind |-> "frame",
              rows |-> IF PenetrationShouldAggregate(region_filter, age_filter)
                       THEN PenetrationAggregate(filtered)
                       ELSE PenetrationAsIs(filtered)]

(***************************************************************************)
(* ComparisonTool                                                          *)
(***************************************************************************)

\* Whether all values of a series are equal (its variance is zero).
Constant(xs) == \A i \in 1..Len(xs) : xs[i] = xs[1]

\* The values Series.corr can return on series that have a correlation.
\* pandas is not part of the repository and the arithmetic of a Pearson
\* coefficient is not what the tools decide: the value is left open among
\* numbers on both sides of each threshold the code compares it with.
CorrelationValues ==
    { Frac(k, 100) : k \in {-100, -31, -30, 0, 50, 51, 80, 81, 100} }

\* ms.corr(pen) (Pearson): nan when fewer than two points are given or one
\* of the series has zero variance, and r otherwise.
Correlation(xs, ys, r) ==
    IF Len(xs) < 2 \/ Constant(xs) \/ Constant(ys) THEN NaN ELSE r

\* scipy.stats.linregress(x, y): raises ValueError on empty input and, for
\* two or more points, when all x are identical.  One point gives a slope
\* of 0/0 and a p-value from -1 degrees of freedom, both nan; r is then 0.
\* Each number is kept as defined ("number") or not ("nan").
Linregress(xs, ys) ==
    IF Len(xs) = 0 THEN Raise("ValueError", 146)
    ELSE IF Len(xs) > 1 /\ Constant(xs) THEN Raise("ValueError", 146)
    ELSE [kind      |-> "fit",
          slope     |-> IF Len(xs) = 1 THEN "nan" ELSE "number",
          r_squared |-> "number",
          p_value   |-> IF Len(xs) = 1 THEN "nan" ELSE "number"]

\* ComparisonTool._get_trend; series.iloc[0] of an empty series raises.
GetTrend(series) ==
    IF Len(series) = 0 THEN Raise("IndexError", 204)
    ELSE IF FGt(series[Len(series)], series[1]) THEN "Increasing"
    ELSE "Decreasing"

\* (v[i] - v[i-1]) / v[i-1] * 100 on numpy floats
GrowthRate(prev, cur) == FScale(FDiv(FSub(cur, prev), prev), 100)

\* ComparisonTool._calculate_growth_rates: one line per adjacent pair of
\* months.
CalculateGrowthRates(merged) ==
    [i \in 1..(IF Len(merged) = 0 THEN 0 ELSE Len(merged) - 1) |->
        [Month       |-> merged[i + 1].Month,
         MarketShare |-> GrowthRate(merged[i].MarketShare, merged[i + 1].MarketShare),
         Penetration |-> GrowthRate(merged[i].Penetration, merged[i + 1].Penetration)]]

\* The first sentence of _generate_insight (lines 225-232).
CorrelationInsight(correlation) ==
    IF FGt(correlation, Frac(8, 10)) THEN "strong_positive"
    ELSE IF FGt(correlation, Frac(5, 10)) THEN "moderate_positive"
    ELSE IF FGt(correlation, Frac(-3, 10)) THEN "weak"
    ELSE "negative"

\* The second sentence of _generate_insight (lines 238-245).
TrendInsight(ms_trend, pen_trend) ==
    IF FGt(ms_trend, Num(0)) /\ FGt(pen_trend, Num(0)) THEN "both_growing"
    ELSE IF FGt(ms_trend, Num(0)) /\ FLe(pen_trend, Num(0)) THEN "share_growing"
    ELSE IF FLe(ms_trend, Num(0)) /\ FGt(pen_trend, Num(0)) THEN "penetration_growing"
    ELSE "both_declining"

\* ComparisonTool._generate_insight: the sentences it joins.
GenerateInsight(correlation, merged, brand, region, age_group) ==
    IF Len(merged) = 0 THEN Raise("IndexError", 235)
    ELSE LET n == Len(merged)
             ms_trend  == FSub(merged[n].MarketShare, merged[1].MarketShare)
             pen_trend == FSub(merged[n].Penetration, merged[1].Penetration)
         IN  [kind        |-> "insight",
              correlation |-> CorrelationInsight(correlation),
              trend       |-> TrendInsight(ms_trend, pen_trend),
              age_group   |-> Truthy(age_group),
              region      |-> Truthy(region)]

\* pd.merge(ms_agg, pen_agg, on='Month'): the months both frames have, in
\* the order of the left frame.
Merge(ms_agg, pen_agg) ==
    LET both == SelectSeq(ms_agg,
                    LAMBDA r : \E j \in 1..Len(pen_agg) : pen_agg[j].Month = r.Month)
    IN  [i \in 1..Len(both) |->
            [Month       |-> both[i].Month,
             MarketShare |-> both[i].Value,
             Penetration |-> (CHOOSE r \in Range(pen_agg) : r.Month = both[i].Month).Value]]

\* Lines 142-180 of ComparisonTool._run: the statistics and the report.
\* linregress raises on an empty frame, so the fields of the f-string are
\* only evaluated on a frame with rows.
ComparisonReport(merged, brand, region, age_group, r) ==
    LET ms  == [i \in 1..Len(merged) |-> merged[i].MarketShare]
        pen == [i \in 1..Len(merged) |-> merged[i].Penetration]
        correlation == Correlation(ms, pen, r)
        fit         == Linregress(ms, pen)
        insight     == GenerateInsight(correlation, merged, brand, region, age_group)
    IN  IF fit.kind = "raise" THEN fit
        ELSE [kind        |-> "report",
              brand       |-> Capitalize(brand),
              region      |-> region,
              age_group   |-> age_group,
              data        |-> merged,
              correlation |-> correlation,
              slope       |-> fit.slope,
              r_squared   |-> fit.r_squared,
              p_value     |-> fit.p_value,
              ms_trend    |-> GetTrend(ms),
              pen_trend   |-> GetTrend(pen),
              growth      |-> CalculateGrowthRates(merged),
              insight     |-> insight]

\* ComparisonTool._run, lines 116-140: the aligned monthly series.
ComparisonMerged(q, ms_df, pen_df) ==
    LET brand     == ComparisonExtractBrand(q)
        region    == ComparisonExtractRegion(q)
        age_group == ExtractAgeGroup(q)
        ms_brand  == FilterBrand(ms_df, brand)
        pen_brand == FilterBrand(pen_df, brand)
        ms_filtered == IF Truthy(region) THEN FilterRegion(ms_brand, region)
                       ELSE ms_brand
        pen_region  == IF Truthy(region) THEN FilterRegion(pen_brand, region)
                       ELSE pen_brand
        pen_filtered == IF Truthy(age_group)
                        THEN FilterAgeGroup(pen_region, age_group)
                        ELSE pen_region
    IN  Merge(GroupByMonthMean(ms_filtered, "MarketShare"),
              GroupByMonthMean(pen_filtered, "Penetration"))

\* ComparisonTool._run, merged_df being ComparisonMerged(q, ms_df, pen_df)
\* and the correlation being r where it is defined.
ComparisonToolResult(q, ms_df, pen_df, merged_df, r) ==
    IF Len(ms_df) = 0 THEN Raise("KeyError", 121)
    ELSE IF Len(pen_df) = 0 THEN Raise("KeyError", 122)
    ELSE ComparisonReport(merged_df,
                          ComparisonExtractBrand(q),
                          ComparisonExtractRegion(q),
                          ExtractAgeGroup(q), r)

(***************************************************************************)
(* CompetitorAnalysisTool                                                  *)
(***************************************************************************)

\* The brand names of the datasets in the order groupby('Brand') returns
\* its groups: sorted by code point, capitals before small letters.
BrandOrder == <<ChipsAhoy, NutterButter, Oreo, Ritz, Zesta, belVita>>

\* groupby('Brand', as_index=False)[col].mean()
GroupByBrandMean(rows, col) ==
    LET keys == SelectSeq(BrandOrder,
                    LAMBDA b : \E i \in 1..Len(rows) : rows[i].Brand = b)
    IN  [i \in 1..Len(keys) |->
            [Brand |-> keys[i],
             Value |-> MeanOf(SelectSeq(rows, LAMBDA r : r.Brand = keys[i]), col)]]

\* df['Month'].max(); 0 stands for the nan of a frame without rows, which
\* equals no month.
LatestMonth(rows) ==
    IF Len(rows) = 0 THEN 0
    ELSE CHOOSE m \in { rows[i].Month : i \in 1..Len(rows) } :
            \A i \in 1..Len(rows) : rows[i].Month <= m

\* The entries of _analyze_market_shares and _analyze_penetration: one per
\* compared brand that has rows, in the order of the compared brands.
Analyze(frame, brands_to_compare, col) ==
    LET with_rows == SelectSeq(brands_to_compare,
                         LAMBDA b : Len(FilterBrand(frame, b)) > 0)
    IN  [i \in 1..Len(with_rows) |->
            LET brand_df == GroupByMonthMean(FilterBrand(frame, with_rows[i]), col)
                start    == brand_df[1].Value
                end      == brand_df[Len(brand_df)].Value
                change   == FSub(end, start)
            IN  [Brand      |-> Capitalize(with_rows[i]),
                 start      |-> start,
                 end        |-> end,
                 change     |-> change,
                 change_pct |-> IF FGt(start, Num(0))
                                THEN FScale(FDiv(change, start), 100)
                                ELSE Num(0)]]

\* CompetitorAnalysisTool._analyze_market_shares
AnalyzeMarketShares(frame, brands_to_compare) ==
    Analyze(frame, brands_to_compare, "MarketShare")

\* CompetitorAnalysisTool._analyze_penetration
AnalyzePenetration(frame, brands_to_compare) ==
    Analyze(frame, brands_to_compare, "Penetration")

\* A plausible slip: the fraction, not the percentage.
ShareOfMarketFraction(market_share, total_share) ==
    FDiv(market_share, total_share)

\* combined['MarketShare'] / total_share * 100 (line 370), for one row.
ShareOfMarket(market_share, total_share) ==
    FScale(FDiv(market_share, total_share), 100)

\* sort_values('MarketShare', ascending=False); rows of equal share are
\* kept in the order they had.
RECURSIVE SortByMarketShare(_)
SortByMarketShare(rows) ==
    IF rows = <<>> THEN <<>>
    ELSE LET i == CHOOSE i \in 1..Len(rows) :
                    /\ \A j \in 1..Len(rows) :
                          ~FGt(rows[j].MarketShare, rows[i].MarketShare)
                    /\ \A j \in 1..(i - 1) :
                          FGt(rows[i].MarketShare, rows[j].MarketShare)
         IN  <<rows[i]>> \o
             SortByMarketShare([k \in 1..(Len(rows) - 1) |->
                                   IF k < i THEN rows[k] ELSE rows[k + 1]])

\* CompetitorAnalysisTool._create_competitive_landscape: the rows of the
\* latest month, one per compared brand that both frames hold.
CreateCompetitiveLandscape(ms_df, pen_df, brands_to_compare) ==
    LET latest_month == LatestMonth(ms_df)
        ms_summary  == GroupByBrandMean(Group(ms_df, latest_month), "MarketShare")
        pen_summary == GroupByBrandMean(Group(pen_df, latest_month), "Penetration")
        merged      == SelectSeq(ms_summary,
                           LAMBDA r : \E j \in 1..Len(pen_summary) :
                                          pen_summary[j].Brand = r.Brand)
        combined    == SelectSeq(merged,
                           LAMBDA r : \E j \in 1..Len(brands_to_compare) :
                                          brands_to_compare[j] = Lower(r.Brand))
        total_share == FSum([i \in 1..Len(combined) |-> combined[i].Value])
    IN  [latest_month |-> latest_month,
         total_share  |-> total_share,
         rows |-> SortByMarketShare(
             [i \in 1..Len(combined) |->
                 [Brand         |-> combined[i].Brand,
                  MarketShare   |-> combined[i].Value,
                  Penetration   |->
                      (CHOOSE r \in Range(pen_summary) :
                           r.Brand = combined[i].Brand).Value,
                  ShareOfMarket |-> ShareOfMarket(combined[i].Value, total_share)]])]

\* CompetitorAnalysisTool._run on the two generated frames, ms_df being the
\* market share frame after the region filter of lines 270-272.  A
\* generated frame without rows has no columns: the first column selected
\* raises.
CompetitorToolResult(q, ms_all, pen_all, ms_df) ==
    LET brands_to_compare == ExtractBrands(q)
        region            == ComparisonExtractRegion(q)
        pen_df == IF Truthy(region) THEN FilterRegion(pen_all, region) ELSE pen_all
    IN  IF Len(ms_all) = 0
        THEN Raise("KeyError", IF Truthy(region) THEN 271 ELSE 325)
        ELSE IF Len(pen_all) = 0
        THEN Raise("KeyError", IF Truthy(region) THEN 272 ELSE 342)
        ELSE [kind         |-> "report",
              region       |-> region,
              ms_analysis  |-> AnalyzeMarketShares(ms_df, brands_to_compare),
              pen_analysis |-> AnalyzePenetration(pen_df, brands_to_compare),
              landscape    |-> CreateCompetitiveLandscape(ms_df, pen_df,
                                                          brands_to_compare)]

(***************************************************************************)
(* ForecastingTool                                                         *)
(***************************************************************************)

\* Largest step per month, in tenths of a point, of a forecast the primary
\* model returns.
MaxDrift == 1

\* The values np.std can return on numbers that are not all equal, in
\* tenths of a point: numbers on both sides of the two thresholds.
StdValues == { Num(3), Num(5), Num(6), Num(10), Num(11) }

\* np.std(xs): 0 when all numbers are equal, and sd otherwise.
Std(xs, sd) == IF Constant(xs) THEN Num(0) ELSE sd

\* What ARIMA(values, order=(1,1,0)).fit().forecast(steps=horizon) and
\* np.std can do.  statsmodels is not part of the repository: it either
\* raises or returns `horizon` numbers.  Which of the two, and which
\* numbers, is left open, except that no model is fitted to an empty
\* series.  The numbers offered are straight lines from the last value.
LibraryOutcomes(values, horizon) ==
    { [ok |-> FALSE, sd |-> sd] : sd \in StdValues } \cup
    (IF Len(values) = 0 THEN {}
     ELSE { [ok |-> TRUE, sd |-> sd,
             forecast |-> [k \in 1..horizon |->
                              FAdd(values[Len(values)], Num(drift * k))]] :
            drift \in (-MaxDrift)..MaxDrift, sd \in StdValues })

\* A plausible slip: range(horizon - 1) in the fallback.
FallbackForecastShort(values, horizon) ==
    LET last_value == values[Len(values)]
        avg_change == FMean([i \in 1..(Len(values) - 1) |->
                                FSub(values[i + 1], values[i])])
    IN  IF Len(values) >= 2
        THEN [i \in 1..(horizon - 1) |-> FAdd(last_value, FScale(avg_change, i))]
        ELSE [i \in 1..horizon |-> last_value]

\* A plausible slip: avg_change * i where the code has avg_change * (i+1).
FallbackForecastFromLast(values, horizon) ==
    LET last_value == values[Len(values)]
        avg_change == FMean([i \in 1..(Len(values) - 1) |->
                                FSub(values[i + 1], values[i])])
    IN  IF Len(values) >= 2
        THEN [i \in 1..horizon |-> FAdd(last_value, FScale(avg_change, i - 1))]
        ELSE [i \in 1..horizon |-> last_value]

\* Lines 466-471, for a series with at least one point.
FallbackForecast(values, horizon) ==
    LET last_value == values[Len(values)]
        avg_change == FMean([i \in 1..(Len(values) - 1) |->
                                FSub(values[i + 1], values[i])])
    IN  IF Len(values) >= 2
        THEN [i \in 1..horizon |-> FAdd(last_value, FScale(avg_change, i))]
        ELSE [i \in 1..horizon |-> last_value]

\* ForecastingTool._generate_forecast, the library doing `primary`.
\* values[-1] of an empty series raises inside the except block, and that
\* exception leaves the method.
GenerateForecast(values, horizon, primary) ==
    IF primary.ok
    THEN [kind |-> "forecast", path |-> "primary", values |-> primary.forecast]
    ELSE IF Len(values) = 0 THEN Raise("IndexError", 466)
    ELSE [kind |-> "forecast", path |-> "fallback",
          values |-> FallbackForecast(values, horizon)]

\* ForecastingTool._generate_forecast_insight; values in tenths of a point.
GenerateForecastInsight(last_value, forecast_values, sd) ==
    LET trend == FSub(forecast_values[Len(forecast_values)], last_value)
        trend_pct == IF FGt(last_value, Num(0))
                     THEN FScale(FDiv(trend, last_value), 100)
                     ELSE Num(0)
    IN  [direction  |-> IF FGt(trend, Num(0)) THEN "increasing"
                        ELSE IF FLt(trend, Num(0)) THEN "decreasing"
                        ELSE "stable",
         sentiment  |-> IF FGt(trend, Num(0))
                        THEN (IF FGt(trend_pct, Num(5)) THEN "positive"
                              ELSE "modestly positive")
                        ELSE IF FLt(trend, Num(0))
                        THEN (IF FLt(trend_pct, Num(-5)) THEN "concerning"
                              ELSE "slightly concerning")
                        ELSE "neutral",
         volatility |-> IF Len(forecast_values) < 3 THEN "none"
                        ELSE IF FGt(Std(forecast_values, sd), Num(10))
                        THEN "significant"
                        ELSE IF FGt(Std(forecast_values, sd), Num(5))
                        THEN "moderate"
                        ELSE "stable"]

\* The month k months after the month YYYYMM.
AddMonths(ym, k) ==
    LET t == (ym \div 100) * 12 + ((ym % 100) - 1) + k
    IN  (t \div 12) * 100 + ((t % 12) + 1)

\* ForecastingTool._run, lines 389-406: the monthly means of the brand.
ForecastingAggregate(q0, frame) ==
    LET q      == Lower(q0)
        column == IF ExtractMetric(q) = MetricMarketShare
                  THEN "MarketShare" ELSE "Penetration"
    IN  GroupByMonthMean(FilterBrand(frame, ExtractBrand(q)), column)

\* values = df_agg[column].values (line 408)
Values(df_agg) == [i \in 1..Len(df_agg) |-> df_agg[i].Value]

\* ForecastingTool._run on the frame of the metric the query names, df_agg
\* being ForecastingAggregate(q0, frame) and the libraries doing `primary`.
ForecastingToolResult(q0, frame, df_agg, primary) ==
    LET q       == Lower(q0)
        horizon == ExtractForecastHorizon(q)
        values  == Values(df_agg)
        forecast == GenerateForecast(values, horizon, primary)
    IN  IF Len(frame) = 0
        THEN Raise("KeyError",
                   IF ExtractMetric(q) = MetricMarketShare THEN 397 ELSE 403)
        ELSE IF forecast.kind = "raise" THEN forecast
        ELSE IF Len(df_agg) = 0 THEN Raise("IndexError", 412)
        ELSE [kind     |-> "report",
              brand    |-> Capitalize(ExtractBrand(q)),
              metric   |-> ExtractMetric(q),
              horizon  |-> horizon,
              data     |-> df_agg,
              path     |-> forecast.path,
              forecast |-> [i \in 1..horizon |->
                              [Month |-> AddMonths(df_agg[Len(df_agg)].Month, i),
                               Value |-> forecast.values[i]]],
              insight  |-> GenerateForecastInsight(values[Len(values)],
                                                   forecast.values, primary.sd)]

(***************************************************************************)
(* The generators called in any order                                      *)
(***************************************************************************)

\* Longest generated history, in months.
MaxPeriods == 2

\* No generator call was made yet.
NoCall == [gen |-> "none"]

\* The generators play no part.
NoGeneratorState ==
    /\ rng = 0 /\ call = NoCall /\ df = <<>> /\ ref = NoCall

\* No call of _generate_forecast is followed step by step.
NoLog == [primary |-> 0, fallback |-> 0, event |-> "none"]

Idle == pc = "idle" /\ log = NoLog

\* What callers pass besides the period count and the seed: the defaults,
\* and a start date in December with lists of the caller's own (a brand
\* and an age group outside the lookup tables among them).
Profiles ==
    { [start_date |-> DefaultStartDate, brands |-> None, regions |-> None,
       age_groups |-> None],
      [start_date |-> <<2025, 12, 15>>, brands |-> <<Ritz, Zesta>>,
       regions |-> <<West, Northeast>>, age_groups |-> <<age25, Teens>>] }

Seeds == {MarketShareSeed, PenetrationSeed}

MarketShareArgs ==
    { [gen |-> "market_share", start_date |-> p.start_date, periods |-> n,
       brands |-> p.brands, regions |-> p.regions, seed |-> sd] :
      p \in Profiles, n \in 0..MaxPeriods, sd \in Seeds }

PenetrationArgs ==
    { [gen |-> "penetration", start_date |-> p.start_date, periods |-> n,
       brands |-> p.brands, age_groups |-> p.age_groups,
       regions |-> p.regions, seed |-> sd] :
      p \in Profiles, n \in 0..MaxPeriods, sd \in Seeds }

\* The record of the first call, and whether a call with other arguments
\* was made since.
Remember(a, rows) ==
    IF ref = NoCall
    THEN [args |-> a, rows |-> rows, mixed |-> FALSE]
    ELSE [ref EXCEPT !.mixed = @ \/ a # ref.args]

\* When the process starts, the global generator is seeded from the
\* operating system: any state.
InitGen ==
    /\ rng \in RngStates
    /\ Idle
    /\ call = NoCall
    /\ df = <<>>
    /\ ref = NoCall
    /\ query = <<>>
    /\ tool = "none"
    /\ params = None
    /\ cfg = None
    /\ input = None
    /\ result = None

\* generate_market_share_data(start_date, periods, brands, regions, seed)
GenerateMarketShareData ==
    /\ \E a \in MarketShareArgs :
        LET s0 == SeededState(a.seed, rng)
        IN  /\ call' = a
            /\ df' = MarketShareRows(a, s0)
            /\ rng' = AdvanceBy(s0, 3 * Len(df'))
            /\ ref' = Remember(a, df')
    /\ UNCHANGED <<pc, log, query, tool, params, cfg, input, result>>

\* generate_penetration_data(start_date, periods, brands, age_groups,
\* regions, seed)
GeneratePenetrationData ==
    /\ \E a \in PenetrationArgs :
        LET s0 == SeededState(a.seed, rng)
        IN  /\ call' = a
            /\ df' = PenetrationRows(a, s0)
            /\ rng' = AdvanceBy(s0, 3 * Len(df'))
            /\ ref' = Remember(a, df')
    /\ UNCHANGED <<pc, log, query, tool, params, cfg, input, result>>

NextGen ==
    \/ GenerateMarketShareData
    \/ GeneratePenetrationData

SpecGen == InitGen /\ [][NextGen]_vars

(***************************************************************************)
(* Claims about the generators                                             *)
(***************************************************************************)

\* C5: two calls of a generator with identical arguments return identical
\* datasets, whatever generator calls were made before and in between.
C5_Deterministic ==
    (call # NoCall /\ call = ref.args) => df = ref.rows

\* The first call is repeated after a call with other arguments, and rows
\* were generated.
C5_Witness ==
    /\ call # NoCall
    /\ call = ref.args
    /\ ref.mixed
    /\ Len(df) > 0
    /\ df = ref.rows

\* C6: every generated MarketShare and Penetration value is at least 0.1
\* (one tenth), however negative the noise.
C6_Floor ==
    call # NoCall =>
        \A i \in 1..Len(df) :
            IF call.gen = "market_share"
            THEN df[i].MarketShare >= 1
            ELSE df[i].Penetration >= 1

\* A penetration value that the floor produced.
C6_Witness ==
    /\ call.gen = "penetration"
    /\ \E i \in 1..Len(df) : df[i].Penetration = 1

\* C7: the keys of the returned rows are exactly the cross product of the
\* generated months with the caller's brand list, the caller's region list
\* and (for penetration) the caller's age-group list, one row each.
C7_CrossProduct ==
    call # NoCall =>
        LET months == { MonthStr(call.start_date, i) : i \in 0..(call.periods - 1) }
            bs     == Range(OrDefault(call.brands, DefaultBrands))
            rs     == Range(OrDefault(call.regions, DefaultRegions))
        IN  IF call.gen = "market_share"
            THEN /\ { <<df[i].Month, df[i].Brand, df[i].Region>> : i \in 1..Len(df) }
                      = months \X bs \X rs
                 /\ Len(df) = Cardinality(months \X bs \X rs)
            ELSE LET ags == Range(OrDefault(call.age_groups, DefaultAgeGroups))
                 IN  /\ { <<df[i].Month, df[i].Brand, df[i].Region, df[i].AgeGroup>> :
                            i \in 1..Len(df) }
                          = months \X bs \X rs \X ags
                     /\ Len(df) = Cardinality(months \X bs \X rs \X ags)

\* C12: every generated market share record has Price > 0, and every
\* generated penetration record has PurchaseFrequency > 0 and a
\* LoyaltyScore from 0 to 100 (1000 tenths), whatever the noise.
C12_Ranges ==
    call # NoCall =>
        \A i \in 1..Len(df) :
            IF call.gen = "market_share"
            THEN df[i].Price > 0
            ELSE /\ df[i].PurchaseFrequency > 0
                 /\ df[i].LoyaltyScore >= 0
                 /\ df[i].LoyaltyScore <= 1000

\* dict has an entry for key.
HasKey(dict, key) == \E i \in 1..Len(dict) : dict[i][1] = key

\* C18: in every generated penetration row of a default brand and a
\* default age group, the age multiplier applied is the entry of the
\* lookup table for that pair; the fallback 1.0 is applied only to a brand
\* or an age group outside the default vocabularies.
C18_AgeMultiplierFromTable ==
    call.gen = "penetration" =>
        \A i \in 1..Len(df) :
            (/\ df[i].Brand \in Range(DefaultBrands)
             /\ df[i].AgeGroup \in Range(DefaultAgeGroups))
                => /\ HasKey(AgeMultipliers, df[i].AgeGroup)
                   /\ HasKey(Get(AgeMultipliers, df[i].AgeGroup, <<>>), df[i].Brand)
                   /\ AgeMultiplier(df[i].AgeGroup, df[i].Brand) =
                         Get(Get(AgeMultipliers, df[i].AgeGroup, <<>>),
                             df[i].Brand, 0)

(***************************************************************************)
(* The tools run on a query                                                *)
(***************************************************************************)

\* Longest history of the reduced datasets, in months.
MaxToolPeriods == 2

\* The datasets the tools are run on: the shipped defaults, and shorter
\* histories with the default lists or with lists that leave out most of
\* the vocabulary.
ToolConfigs ==
    {DefaultConfig} \cup
    { [start_date |-> p.start_date, periods |-> n, brands |-> p.brands,
       regions |-> p.regions, age_groups |-> p.age_groups] :
      p \in Profiles, n \in 0..MaxToolPeriods }

sp == <<" ">>

ToolQueries ==
    { <<>>,
      oreo,
      Flatten(<<ritz, sp, west>>),
      Flatten(<<oreo, sp, age25>>),
      Flatten(<<ritz, sp, northeast, sp, age25>>),
      Flatten(<<Ritz, sp, Southwest>>),
      Flatten(<<ritz, sp, southeast>>),
      Flatten(<<chipsahoy, sp, market_share_kw, sp, <<"2">>, sp, month_kw>>),
      Flatten(<<ritz, sp, marketshare_kw>>),
      Flatten(<<belvita, sp, <<"1","2">>, sp, month_kw, <<"s">>>>),
      Flatten(<<nutterbutter, sp, midwest, sp, age55>>),
      Flatten(<<oreo, sp, ritz, sp, west>>) }

InitTools ==
    /\ cfg \in ToolConfigs
    /\ Idle
    /\ query \in ToolQueries
    /\ rng \in RngStates
    /\ tool = "none"
    /\ result = None
    /\ params = None
    /\ call = NoCall
    /\ df = <<>>
    /\ ref = NoCall
    /\ input = None

\* The state of the global generator after a tool generated `frame`.
AfterFrame(seed, s, frame) == AdvanceBy(SeededState(seed, s), 3 * Len(frame))

\* In the runs below df is the frame the last generator call returned and
\* input is the monthly series the comparison and the forecast work on
\* (None when the tool has none or raised before it had one).

\* MarketShareTool._run(query)
MarketShareToolRun ==
    /\ tool = "none"
    /\ tool' = "market_share_tool"
    /\ params' = [brand  |-> ExtractBrand(Lower(query)),
                  region |-> ExtractRegion(Lower(query))]
    /\ df' = MarketShareFrame(cfg, rng)
    /\ result' = MarketShareToolResult(query, df')
    /\ rng' = AfterFrame(MarketShareSeed, rng, df')
    /\ UNCHANGED <<pc, log, query, call, ref, cfg, input>>

\* PenetrationTool._run(query)
PenetrationToolRun ==
    /\ tool = "none"
    /\ tool' = "penetration_tool"
    /\ params' = [brand     |-> ExtractBrand(Lower(query)),
                  region    |-> ExtractRegion(Lower(query)),
                  age_group |-> ExtractAgeGroup(Lower(query))]
    /\ df' = PenetrationFrame(cfg, rng)
    /\ result' = PenetrationToolResult(query, df')
    /\ rng' = AfterFrame(PenetrationSeed, rng, df')
    /\ UNCHANGED <<pc, log, query, call, ref, cfg, input>>

\* ComparisonTool._run(query): both datasets are generated, market share
\* first.
ComparisonToolRun ==
    /\ tool = "none"
    /\ tool' = "comparison_tool"
    /\ params' = [brand     |-> ComparisonExtractBrand(query),
                  region    |-> ComparisonExtractRegion(query),
                  age_group |-> ExtractAgeGroup(query)]
    /\ LET ms_df == MarketShareFrame(cfg, rng)
           s1    == AfterFrame(MarketShareSeed, rng, ms_df)
       IN  /\ df' = PenetrationFrame(cfg, s1)
           /\ input' = IF Len(ms_df) = 0 \/ Len(df') = 0 THEN None
                       ELSE ComparisonMerged(query, ms_df, df')
           /\ \E r \in CorrelationValues :
                 result' = ComparisonToolResult(query, ms_df, df', input', r)
           /\ rng' = AfterFrame(PenetrationSeed, s1, df')
    /\ UNCHANGED <<pc, log, query, call, ref, cfg>>

\* ForecastingTool._run(query): the dataset of the metric is generated, and
\* the libraries do one of the things they can do.
ForecastingToolRun ==
    /\ tool = "none"
    /\ tool' = "forecasting_tool"
    /\ params' = [metric  |-> ExtractMetric(Lower(query)),
                  brand   |-> ExtractBrand(Lower(query)),
                  horizon |-> ExtractForecastHorizon(Lower(query))]
    /\ LET market == ExtractMetric(Lower(query)) = MetricMarketShare
       IN  /\ df' = IF market THEN MarketShareFrame(cfg, rng)
                    ELSE PenetrationFrame(cfg, rng)
           /\ input' = IF Len(df') = 0 THEN None
                       ELSE ForecastingAggregate(query, df')
           /\ LET df_agg == IF Len(df') = 0 THEN <<>> ELSE input'
               IN  \E primary \in LibraryOutcomes(Values(df_agg),
                                   ExtractForecastHorizon(Lower(query))) :
                     result' = ForecastingToolResult(query, df', df_agg, primary)
           /\ rng' = AfterFrame(IF market THEN MarketShareSeed ELSE PenetrationSeed,
                                rng, df')
    /\ UNCHANGED <<pc, log, query, call, ref, cfg>>

\* CompetitorAnalysisTool._run(query): both datasets are generated, market
\* share first; input is the market share frame the region filter leaves.
CompetitorToolRun ==
    /\ tool = "none"
    /\ tool' = "competitor_analysis_tool"
    /\ params' = [brands |-> ExtractBrands(query),
                  region |-> ComparisonExtractRegion(query)]
    /\ LET ms_df == MarketShareFrame(cfg, rng)
           s1    == AfterFrame(MarketShareSeed, rng, ms_df)
       IN  /\ df' = PenetrationFrame(cfg, s1)
           /\ input' = IF Len(ms_df) = 0 \/ Len(df') = 0 THEN None
                       ELSE IF Truthy(params'.region)
                       THEN FilterRegion(ms_df, params'.region)
                       ELSE ms_df
           /\ result' = CompetitorToolResult(query, ms_df, df', input')
           /\ rng' = AfterFrame(PenetrationSeed, s1, df')
    /\ UNCHANGED <<pc, log, query, call, ref, cfg>>

NextTools ==
    \/ MarketShareToolRun
    \/ PenetrationToolRun
    \/ ComparisonToolRun
    \/ CompetitorToolRun
    \/ ForecastingToolRun

SpecTools == InitTools /\ [][NextTools]_vars

(***************************************************************************)
(* Claims about the tools                                                  *)
(***************************************************************************)

\* The two columns of the aligned frame of the comparison.
MarketShareColumn(merged) == [i \in 1..Len(merged) |-> merged[i].MarketShare]
PenetrationColumn(merged) == [i \in 1..Len(merged) |-> merged[i].Penetration]

\* C3: when the filters select zero rows of a generated dataset, the
\* comparison and the forecasting tool do not raise.
C3_NoDataOutcome ==
    (/\ tool \in {"comparison_tool", "forecasting_tool"}
     /\ Len(df) > 0
     /\ Len(input) = 0)
        => result.kind # "raise"

\* C8: the frame returned by the market share tool and the penetration
\* tool has exactly one row per month of the rows matching the brand and
\* the filters, months ascending, and the metric of each row is the mean
\* over the matching rows of that month.
C8_OneRowPerMonth ==
    (tool \in {"market_share_tool", "penetration_tool"} /\ result.kind = "frame") =>
        LET col      == IF tool = "market_share_tool" THEN "MarketShare"
                        ELSE "Penetration"
            Matches(r) ==
                /\ Lower(r.Brand) = params.brand
                /\ params.region # None => r.Region = params.region
                /\ (tool = "penetration_tool" /\ params.age_group # None)
                      => r.AgeGroup = params.age_group
            matching == SelectSeq(df, Matches)
            months   == GroupKeys(matching)
        IN  /\ Len(result.rows) = Len(months)
            /\ \A i \in 1..Len(months) :
                  /\ result.rows[i].Month = months[i]
                  /\ result.rows[i][col] = MeanOf(Group(matching, months[i]), col)

\* C9: when the aligned series have fewer than two points or one of them
\* has zero variance, the comparison tool returns no report in which the
\* correlation, the slope, R-squared or the p-value is undefined.
C9_NoUndefinedStatistics ==
    (/\ tool = "comparison_tool"
     /\ Len(df) > 0
     /\ \/ Len(input) < 2
        \/ Constant(MarketShareColumn(input))
        \/ Constant(PenetrationColumn(input)))
        => \/ result.kind # "report"
           \/ /\ ~IsNaN(result.correlation)
              /\ result.slope # "nan"
              /\ result.r_squared # "nan"
              /\ result.p_value # "nan"

DefaultQueries ==
    { Flatten(<<b, sp, r, sp, a, sp, m>>) :
        b \in { brands[i] : i \in 1..Len(brands) } \cup { <<>> },
        r \in { regions[i] : i \in 1..Len(regions) } \cup { <<>> },
        a \in { age_groups[i] : i \in 1..Len(age_groups) } \cup { <<>> },
        m \in { market_share_kw, <<>> } }

\* The datasets are generated with the default parameters; the tools seed
\* the generator themselves, so one state of it before the run is enough.
InitDefault ==
    /\ cfg = DefaultConfig
    /\ Idle
    /\ query \in DefaultQueries
    /\ rng = 0
    /\ tool = "none"
    /\ result = None
    /\ params = None
    /\ call = NoCall
    /\ df = <<>>
    /\ ref = NoCall
    /\ input = None

NextDefault ==
    \/ ComparisonToolRun
    \/ ForecastingToolRun

SpecDefault == InitDefault /\ [][NextDefault]_vars

MaxLen == 3

\* Longest forecast, in months.
MaxHorizon == 3

\* The values of a series, in tenths of a point: zero and two others.
SeriesValues == { Num(0), Num(10), Num(25) }

\* The aligned frames of up to MaxLen months from the default start date.
SeriesFrames ==
    UNION { { [i \in 1..n |-> [Month       |-> MonthStr(DefaultStartDate, i - 1),
                               MarketShare |-> f[i][1],
                               Penetration |-> f[i][2]]] :
              f \in [1..n -> SeriesValues \X SeriesValues] } :
            n \in 0..MaxLen }

InitSeries ==
    /\ input \in SeriesFrames
    /\ Idle
    /\ tool = "none"
    /\ params = None
    /\ result = None
    /\ query = <<>>
    /\ cfg = None
    /\ NoGeneratorState

\* ComparisonTool._calculate_growth_rates(df)
CalculateGrowthRatesCall ==
    /\ tool = "none"
    /\ tool' = "calculate_growth_rates"
    /\ result' = [kind |-> "growth", rows |-> CalculateGrowthRates(input)]
    /\ UNCHANGED <<pc, log, query, params, rng, call, df, ref, cfg, input>>

\* ComparisonTool._generate_insight(correlation, df, brand, region,
\* age_group) on the correlation of the two columns of df.
GenerateInsightCall ==
    /\ tool = "none"
    /\ tool' = "generate_insight"
    /\ \E r \in CorrelationValues, region \in {None, Capitalize(west)},
          age_group \in {None, age25} :
          /\ params' = [correlation |-> Correlation(MarketShareColumn(input),
                                                    PenetrationColumn(input), r),
                        brand |-> oreo, region |-> region, age_group |-> age_group]
          /\ result' = GenerateInsight(params'.correlation, input, oreo,
                                       region, age_group)
    /\ UNCHANGED <<pc, log, query, rng, call, df, ref, cfg, input>>

\* ForecastingTool._generate_forecast(values, horizon) on the market share
\* column.
GenerateForecastCall ==
    /\ tool = "none"
    /\ tool' = "generate_forecast"
    /\ \E horizon \in 1..MaxHorizon :
         \E primary \in LibraryOutcomes(MarketShareColumn(input), horizon) :
            /\ params' = [horizon |-> horizon]
            /\ result' = GenerateForecast(MarketShareColumn(input), horizon, primary)
    /\ UNCHANGED <<pc, log, query, rng, call, df, ref, cfg, input>>

NextSeries ==
    \/ CalculateGrowthRatesCall
    \/ GenerateInsightCall
    \/ GenerateForecastCall

SpecSeries == InitSeries /\ [][NextSeries]_vars

(***************************************************************************)
(* Claims about the analytics methods                                      *)
(***************************************************************************)

\* C4: for every horizon >= 1 and every non-empty series,
\* _generate_forecast returns exactly `horizon` points, whether the
\* primary model answers or the fallback is taken, on one point and on
\* two or more.
C4_HorizonPoints ==
    (tool = "generate_forecast" /\ Len(input) > 0) =>
        /\ result.kind = "forecast"
        /\ Len(result.values) = params.horizon

\* The fallback on a series of one point, for a horizon of three months.
C4_Witness ==
    /\ tool = "generate_forecast"
    /\ Len(input) = 1
    /\ params.horizon = 3
    /\ result.kind = "forecast"
    /\ result.path = "fallback"
    /\ Len(result.values) = 3

\* C13: on the fallback path the k-th forecast point of a series of two
\* or more points is last_value + k * (last - first) / (n - 1), and every
\* forecast point of a series of one point is that point.
C13_FallbackFormula ==
    (/\ tool = "generate_forecast"
     /\ result.kind = "forecast"
     /\ result.path = "fallback") =>
        LET values == MarketShareColumn(input)
            n      == Len(values)
        IN  \A k \in 1..params.horizon :
                result.values[k] =
                    IF n >= 2
                    THEN FAdd(values[n],
                              FScale(FDiv(FSub(values[n], values[1]), Num(n - 1)), k))
                    ELSE values[1]

\* The fallback on three points whose two differences are unequal, and a
\* horizon of two or more.
C13_Witness ==
    /\ tool = "generate_forecast"
    /\ result.kind = "forecast"
    /\ result.path = "fallback"
    /\ Len(input) = 3
    /\ FSub(input[2].MarketShare, input[1].MarketShare)
          # FSub(input[3].MarketShare, input[2].MarketShare)
    /\ input[3].MarketShare # input[1].MarketShare
    /\ params.horizon >= 2

\* C15: _generate_insight emits exactly one of the four trend sentences,
\* chosen by the signs of the start-to-end changes: both rising; share
\* rising with penetration flat or down; penetration rising with share
\* flat or down; and "both metrics are declining" only when both fell.
C15_TrendSentence ==
    (tool = "generate_insight" /\ result.kind = "insight") =>
        LET n         == Len(input)
            ms_trend  == FSub(input[n].MarketShare, input[1].MarketShare)
            pen_trend == FSub(input[n].Penetration, input[1].Penetration)
        IN  /\ result.trend \in {"both_growing", "share_growing",
                                 "penetration_growing", "both_declining"}
            /\ (ms_trend.n > 0 /\ pen_trend.n > 0)
                  => result.trend = "both_growing"
            /\ (ms_trend.n > 0 /\ pen_trend.n <= 0)
                  => result.trend = "share_growing"
            /\ (ms_trend.n <= 0 /\ pen_trend.n > 0)
                  => result.trend = "penetration_growing"
            /\ result.trend = "both_declining"
                  => (ms_trend.n < 0 /\ pen_trend.n < 0)

\* C10: _calculate_growth_rates returns one figure per adjacent pair of
\* months and per metric, and no figure it returns is infinite or
\* undefined.
C10_DefinedGrowth ==
    tool = "calculate_growth_rates" =>
        /\ Len(result.rows) = (IF Len(input) = 0 THEN 0 ELSE Len(input) - 1)
        /\ \A i \in 1..Len(result.rows) :
              /\ IsFinite(result.rows[i].MarketShare)
              /\ IsFinite(result.rows[i].Penetration)

(***************************************************************************)
(* One call of _generate_forecast, step by step                            *)
(*                                                                         *)
(* The try block (lines 459-463) is the primary model; `except:` (line     *)
(* 464) names no exception class, so it catches whatever leaves the try    *)
(* block: an error of the model, and equally a KeyboardInterrupt that the  *)
(* interpreter raises in the thread while the block runs.                  *)
(***************************************************************************)

InitForecast ==
    /\ input \in SeriesFrames
    /\ Idle
    /\ tool = "none"
    /\ params = None
    /\ result = None
    /\ query = <<>>
    /\ cfg = None
    /\ NoGeneratorState

\* _generate_forecast(values, horizon) is called on the market share column
\* and enters the try block.
EnterTry ==
    /\ pc = "idle"
    /\ pc' = "try"
    /\ tool' = "generate_forecast"
    /\ \E horizon \in 1..MaxHorizon : params' = [horizon |-> horizon]
    /\ UNCHANGED <<query, rng, call, df, ref, cfg, input, result, log>>

\* Lines 460-463: the model is built and fitted and its forecast is
\* returned.
PrimaryReturns ==
    /\ pc = "try"
    /\ \E primary \in LibraryOutcomes(MarketShareColumn(input), params.horizon) :
          /\ primary.ok
          /\ result' = GenerateForecast(MarketShareColumn(input), params.horizon,
                                        primary)
    /\ pc' = "done"
    /\ log' = [log EXCEPT !.primary = @ + 1, !.event = "returned"]
    /\ UNCHANGED <<query, tool, params, rng, call, df, ref, cfg, input>>

\* Lines 460-464: the model raises and the except clause is entered.
PrimaryRaises ==
    /\ pc = "try"
    /\ pc' = "except"
    /\ log' = [log EXCEPT !.primary = @ + 1, !.event = "raised"]
    /\ UNCHANGED <<query, tool, params, rng, call, df, ref, cfg, input, result>>

\* Lines 459-464: KeyboardInterrupt is raised in the thread while the try
\* block runs; the except clause is entered all the same.
InterruptedInTry ==
    /\ pc = "try"
    /\ pc' = "except"
    /\ log' = [log EXCEPT !.primary = @ + 1, !.event = "interrupted"]
    /\ UNCHANGED <<query, tool, params, rng, call, df, ref, cfg, input, result>>

\* Lines 465-471: the fallback; what it raises leaves the method.
Fallback ==
    /\ pc = "except"
    /\ pc' = "done"
    /\ result' = GenerateForecast(MarketShareColumn(input), params.horizon,
                                  [ok |-> FALSE])
    /\ log' = [log EXCEPT !.fallback = @ + 1]
    /\ UNCHANGED <<query, tool, params, rng, call, df, ref, cfg, input>>

NextForecast ==
    \/ EnterTry
    \/ PrimaryReturns
    \/ PrimaryRaises
    \/ InterruptedInTry
    \/ Fallback

SpecForecast == InitForecast /\ [][NextForecast]_vars

\* C14: when a call of _generate_forecast is over, the primary model was
\* attempted exactly once; the fallback ran at most once, and ran if and
\* only if the primary model raised; a failure of the primary model on a
\* non-empty series ended in a forecast; and an exception that something
\* other than the primary model raised (the fallback, or an interrupt)
\* left the method.
C14_PrimaryThenFallback ==
    pc = "done" =>
        /\ log.primary = 1
        /\ log.fallback <= 1
        /\ log.fallback = 1 <=> log.event = "raised"
        /\ (log.event = "raised" /\ Len(input) > 0) => result.kind = "forecast"
        /\ (log.event = "raised" /\ Len(input) = 0) => result.kind = "raise"
        /\ log.event = "interrupted" => result.kind = "raise"

(***************************************************************************)
(* Parameter extraction: each tool's extractors applied to one query       *)
(***************************************************************************)

\* Longest query, in fragments.
MaxFrags == 2

\* What queries are made of: vocabulary words as the extractors spell them
\* and as a user capitalises them, the metric and horizon keywords, numerals
\* and filler.
Fragments ==
    { oreo, chipsahoy, ritz, belvita, nutterbutter,
      <<"O","r","e","o">>, <<"b","e","l","V","i","t","a">>,
      northeast, southeast, midwest, west, southwest,
      <<"S","o","u","t","h","w","e","s","t">>,
      age18, age25, age35, age45, age55,
      market_share_kw, marketshare_kw, <<"M","a","r","k","e","t"," ","S","h","a","r","e">>,
      month_kw, <<"M","o","n","t","h","s">>,
      <<"1">>, <<"2">>, <<"7">>, <<"1","0">>, <<"1","2">>,
      <<" ">>, <<"x">> }

Queries ==
    { Flatten(fs) : fs \in UNION { [1..n -> Fragments] : n \in 0..MaxFrags } }

InitExtract ==
    /\ query \in Queries
    /\ Idle
    /\ tool = "none"
    /\ params = None
    /\ NoGeneratorState
    /\ cfg = None
    /\ input = None
    /\ result = None

\* MarketShareTool._run, lines 22-24
MarketShareToolExtract ==
    /\ tool = "none"
    /\ tool' = "market_share_tool"
    /\ params' = [brand  |-> ExtractBrand(Lower(query)),
                  region |-> ExtractRegion(Lower(query))]
    /\ UNCHANGED <<pc, log, query, rng, call, df, ref, cfg, input, result>>

\* PenetrationTool._run, lines 63-66
PenetrationToolExtract ==
    /\ tool = "none"
    /\ tool' = "penetration_tool"
    /\ params' = [brand     |-> ExtractBrand(Lower(query)),
                  region    |-> ExtractRegion(Lower(query)),
                  age_group |-> ExtractAgeGroup(Lower(query))]
    /\ UNCHANGED <<pc, log, query, rng, call, df, ref, cfg, input, result>>

\* ComparisonTool._run, lines 116-118: the query is not lower-cased here.
ComparisonToolExtract ==
    /\ tool = "none"
    /\ tool' = "comparison_tool"
    /\ params' = [brand     |-> ComparisonExtractBrand(query),
                  region    |-> ComparisonExtractRegion(query),
                  age_group |-> ExtractAgeGroup(query)]
    /\ UNCHANGED <<pc, log, query, rng, call, df, ref, cfg, input, result>>

\* CompetitorAnalysisTool._run, lines 266-267
CompetitorToolExtract ==
    /\ tool = "none"
    /\ tool' = "competitor_analysis_tool"
    /\ params' = [brands |-> ExtractBrands(query),
                  region |-> ComparisonExtractRegion(query)]
    /\ UNCHANGED <<pc, log, query, rng, call, df, ref, cfg, input, result>>

\* ForecastingTool._run, lines 389-392
ForecastingToolExtract ==
    /\ tool = "none"
    /\ tool' = "forecasting_tool"
    /\ params' = [metric  |-> ExtractMetric(Lower(query)),
                  brand   |-> ExtractBrand(Lower(query)),
                  horizon |-> ExtractForecastHorizon(Lower(query))]
    /\ UNCHANGED <<pc, log, query, rng, call, df, ref, cfg, input, result>>

NextExtract ==
    \/ MarketShareToolExtract
    \/ PenetrationToolExtract
    \/ ComparisonToolExtract
    \/ CompetitorToolExtract
    \/ ForecastingToolExtract

SpecExtract == InitExtract /\ [][NextExtract]_vars

(***************************************************************************)
(* Claims about parameter extraction                                       *)
(***************************************************************************)

\* The index of the first entry of vocab that occurs in q; 0 when none does.
FirstIndex(vocab, q) ==
    IF \E i \in 1..Len(vocab) : In(vocab[i], q)
    THEN CHOOSE i \in 1..Len(vocab) :
            In(vocab[i], q) /\ \A j \in 1..(i - 1) : ~In(vocab[j], q)
    ELSE 0

RegionNames == { Capitalize(regions[i]) : i \in 1..Len(regions) }

OccursAt(w, q, i) ==
    /\ i >= 1
    /\ i + Len(w) - 1 <= Len(q)
    /\ \A k \in 1..Len(w) : q[i + k - 1] = w[k]

\* The regions a query names: those with an occurrence that is not part of
\* an occurrence of another region's name ("west" inside "southwest" names
\* no region of its own).
NamedRegions(q) ==
    { r \in Range(regions) :
        \E i \in 1..Len(q) :
            /\ OccursAt(r, q, i)
            /\ ~\E r2 \in Range(regions) \ {r} :
                  \E j \in 1..i :
                      OccursAt(r2, q, j) /\ j + Len(r2) >= i + Len(r) }

\* C16: a query that names one region and no other is filtered to that
\* region by the region extractor of every tool that has one.
C16_EachRegionExtracted ==
    tool \in {"market_share_tool", "penetration_tool", "comparison_tool",
              "competitor_analysis_tool"} =>
        \A r \in Range(regions) :
            NamedRegions(Lower(query)) = {r} => params.region = Capitalize(r)

Digits == {"0", "1", "2", "3", "4", "5", "6", "7", "8", "9"}

\* The numbers written in q: the positions <<i, j>> of its maximal runs of
\* digits.
Numbers(q) ==
    { ij \in (1..Len(q)) \X (1..Len(q)) :
        /\ ij[1] <= ij[2]
        /\ \A k \in ij[1]..ij[2] : q[k] \in Digits
        /\ ij[1] = 1 \/ q[ij[1] - 1] \notin Digits
        /\ ij[2] = Len(q) \/ q[ij[2] + 1] \notin Digits }

\* C17: for each N in 1..12, a forecasting query that contains "month" and
\* whose only number is the numeral N yields horizon N.
C17_HorizonIsTheNumber ==
    tool = "forecasting_tool" =>
        LET q == Lower(query) IN
        \A N \in 1..12 :
            (/\ In(month_kw, q)
             /\ Cardinality(Numbers(q)) = 1
             /\ \A ij \in Numbers(q) : SubSeq(q, ij[1], ij[2]) = Str(N))
                => params.horizon = N

=============================================================================
